---- MODULE Spec2Model ----
(***************************************************************************)
(* A model of ci/sync_dependencies.py: the marker-based rewrite of a       *)
(* dependent's WORKSPACE manifest and the commit-if-changed protocol.      *)
(*                                                                         *)
(* Text is a sequence of symbols.  A symbol is one character, or a literal *)
(* chunk of text the program never looks inside of in the inputs drawn     *)
(* here (the fixed part of SYNC_MARKER, the 'graknlabs_' prefix, a branch  *)
(* name).  The program is Python 2 (print_function import, str results of  *)
(* subprocess.check_output): files are read and written byte for byte.     *)
(***************************************************************************)
EXTENDS Integers, Sequences, FiniteSets, TLC

(***************************************************************************)
(* Bounds of the model.                                                    *)
(***************************************************************************)
\* Length of a revision identifier.  The program's pattern is [0-9a-f]{40};
\* the model scales the repetition count down so that lines can be enumerated.
HashLen == 2
\* Longest line drawn for the calls of re.sub.
MaxLineLen == 5
\* Most lines of a manifest drawn for the marker scan.
MaxLines == 3
\* Most --user tokens on the command line.
MaxUsers == 2
\* Runs of the script in succession.
MaxRuns == 2
\* Longest repository name drawn for the calls of bazel_workspace.
MaxNameLen == 3
\* Most method calls made on one GitRepo by a direct caller.
MaxCalls == 3

(***************************************************************************)
(* Text helpers (Python str operations).                                   *)
(***************************************************************************)
\* Python: t in s (t a literal substring of s).
Contains(s, t) ==
    \E p \in 0..(Len(s) - Len(t)) :
        \A k \in 1..Len(t) : s[p + k] = t[k]

\* Python: s.replace(old, new) for one-character old and new.
str_replace(s, old, new) ==
    [k \in 1..Len(s) |-> IF s[k] = old THEN new ELSE s[k]]

\* Python: s.split(sep) for a one-character sep: the list of the parts.
RECURSIVE str_split(_, _)
str_split(s, sep) ==
    LET ps == {p \in 1..Len(s) : s[p] = sep}
    IN  IF ps = {} THEN <<s>>
        ELSE LET p == CHOOSE q \in ps : \A r \in ps : q <= r
             IN  <<SubSeq(s, 1, p - 1)>> \o str_split(SubSeq(s, p + 1, Len(s)), sep)

\* file.readlines(): the lines of a file, each keeping its line terminator.
RECURSIVE readlines(_)
readlines(data) ==
    IF data = <<>> THEN <<>>
    ELSE LET ps == {p \in 1..Len(data) : data[p] = "\n"}
         IN  IF ps = {} THEN <<data>>
             ELSE LET p == CHOOSE q \in ps : \A r \in ps : q <= r
                  IN  <<SubSeq(data, 1, p)>> \o readlines(SubSeq(data, p + 1, Len(data)))

\* file.writelines(lines): the lines written one after the other.
RECURSIVE writelines(_)
writelines(lines) ==
    IF lines = <<>> THEN <<>> ELSE Head(lines) \o writelines(Tail(lines))

(***************************************************************************)
(* GitRepo class constants and properties.                                 *)
(***************************************************************************)
GRAKNLABS_PREFIX == <<"graknlabs_">>
GRAKN_CORE_REPO_NAME == <<"g", "r", "a", "k", "n">>
GRAKN_CORE_WORKSPACE == GRAKNLABS_PREFIX \o <<"g", "r", "a", "k", "n", "_", "c", "o", "r", "e">>
CLEAN_TREE_MSG == "nothing to commit, working tree clean"

SYNC_MARKER(ws_name) ==
    <<"# sync-marker: do not remove this comment, this is used for sync-dependencies by @">>
        \o ws_name

\* The character class [0-9a-f] of COMMIT_HASH_REGEX.
HexDigits ==
    {"0", "1", "2", "3", "4", "5", "6", "7", "8", "9", "a", "b", "c", "d", "e", "f"}

\* COMMIT_HASH_REGEX matches at position p of line.
COMMIT_HASH_REGEX(line, p) ==
    /\ p >= 1
    /\ p + HashLen - 1 <= Len(line)
    /\ \A k \in 0..(HashLen - 1) : line[p + k] \in HexDigits

\* The regex engine's search: the first position at or after p where the
\* pattern matches, 0 when there is none.
RECURSIVE re_search(_, _)
re_search(line, p) ==
    IF p + HashLen - 1 > Len(line) THEN 0
    ELSE IF COMMIT_HASH_REGEX(line, p) THEN p
    ELSE re_search(line, p + 1)

\* re.sub without its count argument: every match is replaced.
RECURSIVE re_sub_all(_, _)
re_sub_all(repl, line) ==
    LET p == re_search(line, 1)
    IN  IF p = 0 THEN line
        ELSE SubSeq(line, 1, p - 1) \o repl
                 \o re_sub_all(repl, SubSeq(line, p + HashLen, Len(line)))

\* re.sub with a pattern one repetition short of a revision.
re_sub_short(repl, line) ==
    LET ps == {p \in 1..(Len(line) - HashLen + 2) :
                   \A k \in 0..(HashLen - 2) : line[p + k] \in HexDigits}
    IN  IF ps = {} THEN line
        ELSE LET p == CHOOSE q \in ps : \A r \in ps : q <= r
             IN  SubSeq(line, 1, p - 1) \o repl \o SubSeq(line, p + HashLen - 1, Len(line))

\* re.sub(COMMIT_HASH_REGEX, repl, line, 1): at most one replacement.
re_sub(repl, line) ==
    LET p == re_search(line, 1)
    IN  IF p = 0 THEN line
        ELSE SubSeq(line, 1, p - 1) \o repl \o SubSeq(line, p + HashLen, Len(line))

\* bazel_workspace with replace('-', '_', 1): only the first dash is replaced.
bazel_workspace_first_dash(repo) ==
    IF repo = GRAKN_CORE_REPO_NAME THEN GRAKN_CORE_WORKSPACE
    ELSE GRAKNLABS_PREFIX \o
            [k \in 1..Len(repo) |->
                IF repo[k] = "-" /\ \A j \in 1..(k - 1) : repo[j] # "-"
                THEN "_" ELSE repo[k]]

bazel_workspace(repo) ==
    IF repo = GRAKN_CORE_REPO_NAME THEN GRAKN_CORE_WORKSPACE
    ELSE GRAKNLABS_PREFIX \o str_replace(repo, "-", "_")

marker(repo) == SYNC_MARKER(bazel_workspace(repo))

\* The scan without its break: the last line that contains the marker.
locate_last(workspace_content, tag, i) ==
    LET hits == {j \in i..Len(workspace_content) : Contains(workspace_content[j], tag)}
    IN  IF hits = {} THEN 0 ELSE CHOOSE j \in hits : \A k \in hits : k <= j

\* The for/else scan of replace_marker: the index of the first line that
\* contains the marker (1-based), 0 when the loop runs to its else branch.
RECURSIVE locate(_, _, _)
locate(workspace_content, tag, i) ==
    IF i > Len(workspace_content) THEN 0
    ELSE IF Contains(workspace_content[i], tag) THEN i
    ELSE locate(workspace_content, tag, i + 1)

\* The loop of replace_marker with its body: the located index and the
\* list of lines after the assignment to workspace_content[i].
replace_loop(workspace_content, tag, last_commit) ==
    LET i == locate(workspace_content, tag, 1)
    IN  IF i = 0 THEN [index |-> 0, content |-> workspace_content]
        ELSE [index |-> i,
              content |-> [workspace_content EXCEPT
                              ![i] = re_sub(last_commit, workspace_content[i])]]

(***************************************************************************)
(* The state: the process environment and command line, the remote         *)
(* repositories, and the state of one process running main().              *)
(***************************************************************************)
VARIABLES
    environ,       \* os.environ: a function from the variables set to their values
    arguments,     \* the parsed command line: [dependency, user]
    remote_tip,    \* the tip revision of the dependency's remote branch
    origin,        \* remote dependents: coordinates -> [WORKSPACE, log]
    run,           \* which run of the script this is
    pc,            \* the position of main()
    dependency,    \* the GitRepo of --dependency
    users,         \* the GitRepo objects of --user
    u,             \* index of the user the for loop of main is at
    clones,        \* the temporary clone directory of each user
    should_commit, \* the local of replace_marker
    located,       \* the index the loop of replace_marker stopped at (0: else branch)
    exit_code,     \* the exit status of the process, read once pc = "exited"
    raised,        \* the exception that ended main, "none" if none
    ret,           \* who called the step pc is at, and so where it returns to
    trace,         \* every subprocess call and print so far, in order
    call           \* a call of a pure function and its result

vars == <<environ, arguments, remote_tip, origin, run, pc, dependency,
          users, u, clones, should_commit, located, exit_code, raised, ret, trace, call>>

procvars == <<pc, dependency, users, u, clones, should_commit, located,
              exit_code, raised, ret>>

(***************************************************************************)
(* Inputs.                                                                 *)
(***************************************************************************)
\* Python None and the empty string: both falsy where the program tests them.
None == <<>>

\* Revision identifiers: HashLen hexadecimal digits.
Rev(c) == [k \in 1..HashLen |-> c]
RevA == Rev("a")
RevB == Rev("b")
Revisions == {RevA, RevB}

Client == <<"c", "l", "i", "e", "n", "t">>
ClientPython == <<"c", "l", "i", "e", "n", "t", "-", "p", "y", "t", "h", "o", "n">>
Docs == <<"d", "o", "c", "s">>
Kglib == <<"k", "g", "l", "i", "b">>
Master == <<"master">>

Coord(repo, branch) == repo \o <<":">> \o branch

\* --dependency tokens: two well-formed, one without a branch.
DependencyTokens == {Coord(Client, Master), Coord(GRAKN_CORE_REPO_NAME, Master), Client}
\* --user tokens: two well-formed, one with three parts.
UserTokens == {Coord(Docs, Master), Coord(Kglib, Master),
               Coord(Docs, Master) \o <<":">> \o Master}
\* The dependents that exist at the remote.
Dependents == {<<Docs, Master>>, <<Kglib, Master>>}

UserLists == UNION {[1..n -> UserTokens] : n \in 1..MaxUsers}

\* Values of CIRCLE_REPOSITORY_URL.
UpstreamUrl == <<"https://github.com/", "g", "r", "a", "k", "n", "l", "a", "b", "s", "/", "d", "o", "c", "s">>
ForkUrl == <<"https://github.com/", "f", "o", "r", "k", "/", "d", "o", "c", "s">>

Environments ==
    {e \in UNION {[D -> {UpstreamUrl, ForkUrl, <<"s3cr3t">>}] :
                      D \in SUBSET {"CIRCLE_REPOSITORY_URL", "GRABL_CREDENTIAL"}} :
        /\ "CIRCLE_REPOSITORY_URL" \in DOMAIN e => e["CIRCLE_REPOSITORY_URL"] \in {UpstreamUrl, ForkUrl}
        /\ "GRABL_CREDENTIAL" \in DOMAIN e => e["GRABL_CREDENTIAL"] = <<"s3cr3t">>}

\* Lines of a WORKSPACE file.
TaggedLine(ws_name, rev) ==
    <<"    commit = \"">> \o rev \o <<"\"", ",", " ">> \o SYNC_MARKER(ws_name) \o <<"\n">>
PlainLine == <<"git_repository(", "\n">>
\* A tagged line with no revision on it.
BareLine(ws_name) == <<"    branch = \"master\", ">> \o SYNC_MARKER(ws_name) \o <<"\n">>
\* A tagged line with a second revision after the marker.
TwoRevLine(ws_name, rev1, rev2) ==
    <<"    commit = \"">> \o rev1 \o <<"\"", ",", " ">> \o SYNC_MARKER(ws_name)
        \o <<" ">> \o rev2 \o <<"\n">>

ClientWs == bazel_workspace(Client)
ClientPythonWs == bazel_workspace(ClientPython)

\* The manifests a dependent may hold at the remote.  Every dependent has a
\* WORKSPACE file: open() on a missing file raises IOError at line 159, an
\* input this model leaves out.
Manifests ==
    { PlainLine \o TaggedLine(ClientWs, RevB) \o PlainLine,
      TaggedLine(ClientWs, RevA),
      BareLine(ClientWs) \o TaggedLine(ClientWs, RevB),
      TaggedLine(ClientPythonWs, RevB) \o TaggedLine(ClientWs, RevB),
      TwoRevLine(GRAKN_CORE_WORKSPACE, RevB, RevB) \o TaggedLine(GRAKN_CORE_WORKSPACE, RevB) }

(***************************************************************************)
(* The module-level functions and GitRepo.__init__.                        *)
(***************************************************************************)
\* os.getenv(name, default)
getenv(env, name, default) == IF name \in DOMAIN env THEN env[name] ELSE default

\* is_building_upstream that looks for the host instead of the organisation.
is_building_upstream_host(env) ==
    Contains(getenv(env, "CIRCLE_REPOSITORY_URL", <<>>), <<"https://github.com/">>)

is_building_upstream(env) ==
    Contains(getenv(env, "CIRCLE_REPOSITORY_URL", <<>>),
             <<"g", "r", "a", "k", "n", "l", "a", "b", "s">>)

ValueError == <<"ValueError">>

\* grabl_credential without its check: the format of a missing value.
grabl_credential_unchecked(env) ==
    <<"grabl:">> \o getenv(env, "GRABL_CREDENTIAL", <<"None">>)

\* The credential string, or ValueError when the function raises it.
grabl_credential(env) ==
    IF "GRABL_CREDENTIAL" \notin DOMAIN env THEN ValueError
    ELSE <<"grabl:">> \o getenv(env, "GRABL_CREDENTIAL", None)

\* GitRepo.__init__ that only asks for at least two parts.
init_raises_lenient(git_coordinates, env) ==
    \/ Len(str_split(git_coordinates, ":")) < 2
    \/ grabl_credential(env) = ValueError

\* GitRepo.__init__ raises ValueError.
init_raises(git_coordinates, env) ==
    \/ Len(str_split(git_coordinates, ":")) # 2
    \/ grabl_credential(env) = ValueError

\* The object GitRepo.__init__ builds when it does not raise.
GitRepo(git_coordinates, env) ==
    LET coords == str_split(git_coordinates, ":")
    IN  [repo |-> coords[1],
         branch |-> coords[2],
         credential |-> grabl_credential(env),
         is_configured |-> FALSE,
         clone_dir |-> None,
         last_commit |-> None]

\* ensure_configured: whether the wrapper calls configure() first.
ensure_configured(self) == ~self.is_configured

\* ensure_cloned: whether the wrapper calls clone() first.
ensure_cloned(self) == self.clone_dir = None

\* The last_commit property without its cache.
last_commit_uncached(self) == FALSE

\* The last_commit property: whether the cached value is returned.
last_commit_cached(self) == self.last_commit # None

\* The message built from the repository name instead of the workspace name.
commit_message_repo(o) ==
    <<"update @">> \o GRAKNLABS_PREFIX \o o.repo \o <<" dependency to latest ">> \o o.branch

\* The message of the commit replace_marker creates.
commit_message(o) ==
    <<"update @">> \o bazel_workspace(o.repo) \o <<" dependency to latest ">> \o o.branch

\* git status of a git that words the clean tree differently.
git_status_old(clone) ==
    IF clone.index = clone.HEAD /\ clone.worktree = clone.index
    THEN <<"On branch ", "nothing to commit, working directory clean">>
    ELSE <<"On branch ", "Changes to be committed:">>

\* What git status prints in a clone (LANG=C).
git_status(clone) ==
    IF clone.index = clone.HEAD /\ clone.worktree = clone.index
    THEN <<"On branch ", CLEAN_TREE_MSG>>
    ELSE <<"On branch ", "Changes to be committed:">>

(***************************************************************************)
(* The trace: subprocess calls and prints, in program order.               *)
(***************************************************************************)
\* who: the index of the user the entry is about, 0 for the dependency and main.
Call(what, who) ==
    [run |-> run, kind |-> "call", what |-> what, who |-> who, ok |-> TRUE, arg |-> <<>>]
FailedCall(what, who) ==
    [run |-> run, kind |-> "call", what |-> what, who |-> who, ok |-> FALSE, arg |-> <<>>]
\* A print, with the revision the message names (if any).
SayRev(what, who, rev) ==
    [run |-> run, kind |-> "print", what |-> what, who |-> who, ok |-> TRUE, arg |-> rev]
Say(what, who) == SayRev(what, who, <<>>)
\* A method called directly returns value to its caller.
Returns(what, who, value) ==
    [run |-> run, kind |-> "return", what |-> what, who |-> who, ok |-> TRUE, arg |-> value]

NoCall == [fn |-> "none", line |-> <<>>, rev |-> <<>>, lines |-> <<>>, tag |-> <<>>,
           calls |-> 0, first |-> <<>>, result |-> <<>>, index |-> 0]

\* A clone directory: the WORKSPACE file in the working tree, in the index and
\* in HEAD, the commit messages of the branch, and (for the record) the remote
\* branch as it was cloned.
NoClone == [worktree |-> <<>>, index |-> <<>>, HEAD |-> <<>>, log |-> <<>>,
            cloned |-> [WORKSPACE |-> <<>>, log |-> <<>>]]

\* The state of a process at its start.
ProcessStart ==
    /\ pc = "main"
    /\ dependency = None
    /\ users = <<>>
    /\ u = 0
    /\ clones = <<>>
    /\ should_commit = FALSE
    /\ located = 0
    /\ exit_code = 0
    /\ raised = "none"
    /\ ret = "main"

Init ==
    /\ environ \in Environments
    /\ arguments \in [dependency : DependencyTokens, user : UserLists]
    /\ remote_tip \in {RevA, None}
    /\ origin \in [Dependents -> [WORKSPACE : Manifests, log : {<<>>}]]
    /\ run = 1
    /\ ProcessStart
    /\ trace = <<>>
    /\ call = NoCall

inputs == <<environ, arguments, run, call>>
remotes == <<remote_tip, origin>>

(***************************************************************************)
(* main(), cut at its subprocess calls.                                    *)
(***************************************************************************)
\* The process ends with this exit status.
Exits(code, exception) ==
    /\ pc' = "exited"
    /\ exit_code' = code
    /\ raised' = exception

\* Where user.clone() starts: the ensure_configured wrapper.
StartClone(self) == IF ensure_configured(self) THEN "configure" ELSE "clone"

\* A method of a GitRepo was called directly, not by main.
DirectCall == call.fn \in {"clone", "replace_marker"}

\* replace_marker returns: to a direct caller, or to the for loop of main,
\* which goes on to its next iteration or ends.
NextUser ==
    IF DirectCall
    THEN /\ u' = u
         /\ pc' = "idle"
         /\ UNCHANGED <<exit_code, raised>>
    ELSE IF u < Len(users)
    THEN /\ u' = u + 1
         /\ pc' = StartClone(users[u + 1])
         /\ UNCHANGED <<exit_code, raised>>
    ELSE /\ u' = u
         /\ Exits(0, "none")

\* The temporary directory tempfile.mkdtemp makes: a name no earlier call
\* returned (n: the directories made so far for this object).
mkdtemp(i, n, repo) ==
    <<"/tmp/git.", ToString(run), ToString(i), ToString(n), ".">> \o repo

\* The coordinates of a GitRepo at the remote.
Coordinates(self) == <<self.repo, self.branch>>

\* The output of git ls-remote for a branch whose tip is tip.
ls_remote(tip, branch) ==
    IF tip = None THEN <<>> ELSE tip \o <<"\t", "refs/heads/">> \o branch \o <<"\n">>

\* Python: output.split(), the whitespace-separated tokens.
RECURSIVE split_whitespace(_)
split_whitespace(s) ==
    LET ws == {" ", "\t", "\n"}
        starts == {p \in 1..Len(s) : s[p] \notin ws}
    IN  IF starts = {} THEN <<>>
        ELSE LET b == CHOOSE q \in starts : \A r \in starts : q <= r
                 ends == {p \in b..Len(s) : s[p] \in ws}
                 e == IF ends = {} THEN Len(s) + 1
                      ELSE CHOOSE q \in ends : \A r \in ends : q <= r
             IN  <<SubSeq(s, b, e - 1)>> \o split_whitespace(SubSeq(s, e, Len(s)))

\* Lines 202-204: not the upstream repository, exit(0).
MainNotUpstream ==
    /\ pc = "main"
    /\ ~is_building_upstream(environ)
    /\ trace' = Append(trace, Say("not upstream", 0))
    /\ Exits(0, "SystemExit")
    /\ UNCHANGED <<dependency, users, u, clones, should_commit, located, ret>>
    /\ UNCHANGED <<inputs, remotes>>

\* A missing credential treated like a fork: a message and exit(0).
MainMissingCredential_skip ==
    /\ pc = "main"
    /\ is_building_upstream(environ)
    /\ grabl_credential(environ) = ValueError
    /\ trace' = Append(trace, Say("no credential", 0))
    /\ Exits(0, "SystemExit")
    /\ UNCHANGED <<dependency, users, u, clones, should_commit, located, ret>>
    /\ UNCHANGED <<inputs, remotes>>

\* Line 206: grabl_credential() raises.
MainMissingCredential ==
    /\ pc = "main"
    /\ is_building_upstream(environ)
    /\ grabl_credential(environ) = ValueError
    /\ Exits(1, "ValueError")
    /\ UNCHANGED <<dependency, users, u, clones, should_commit, located, ret, trace>>
    /\ UNCHANGED <<inputs, remotes>>

\* Lines 208-216: the GitRepo objects are built and the plan is printed.
MainConstruct ==
    /\ pc = "main"
    /\ is_building_upstream(environ)
    /\ grabl_credential(environ) # ValueError
    /\ IF \/ init_raises(arguments.dependency, environ)
          \/ \E i \in 1..Len(arguments.user) : init_raises(arguments.user[i], environ)
       THEN /\ Exits(1, "ValueError")
            /\ UNCHANGED <<dependency, users, clones, ret, trace>>
       ELSE /\ dependency' = GitRepo(arguments.dependency, environ)
            /\ users' = [i \in 1..Len(arguments.user) |-> GitRepo(arguments.user[i], environ)]
            /\ clones' = [i \in 1..Len(arguments.user) |-> NoClone]
            /\ trace' = Append(trace, Say("plan", 0))
            /\ pc' = "last_commit"
            /\ ret' = "main"
            /\ UNCHANGED <<exit_code, raised>>
    /\ UNCHANGED <<u, should_commit, located>>
    /\ UNCHANGED <<inputs, remotes>>

\* Lines 130-136: git ls-remote, and the first token of its output cached.
LsRemote ==
    /\ pc = "last_commit"
    /\ LET git_output == ls_remote(remote_tip, dependency.branch)
       IN  IF split_whitespace(git_output) = <<>>
           THEN \* git_output.split()[0] raises IndexError
                /\ trace' = Append(trace, Call("ls-remote", 0))
                /\ Exits(1, "IndexError")
                /\ UNCHANGED <<dependency, u, ret>>
           ELSE /\ dependency' = [dependency EXCEPT
                                     !.last_commit = split_whitespace(git_output)[1]]
                /\ IF ret = "main"
                   THEN \* line 218, then the first iteration of the loop
                        /\ trace' = trace \o <<Call("ls-remote", 0),
                                             SayRev("latest commit", 0, dependency'.last_commit)>>
                        /\ u' = 1
                        /\ pc' = StartClone(users[1])
                        /\ ret' = "main"
                   ELSE /\ trace' = Append(trace, Call("ls-remote", 0))
                        /\ pc' = ret
                        /\ ret' = "main"
                        /\ u' = u
                /\ UNCHANGED <<exit_code, raised>>
    /\ UNCHANGED <<users, clones, should_commit, located>>
    /\ UNCHANGED <<inputs, remotes>>

\* Lines 138-141: git config --global user.email and user.name.
Configure ==
    /\ pc = "configure"
    /\ trace' = Append(trace, Call("config", u))
    /\ pc' = "clone"
    /\ UNCHANGED <<dependency, users, u, clones, should_commit, located, exit_code, raised, ret>>
    /\ UNCHANGED <<inputs, remotes>>

\* Lines 146-149: git clone into a fresh temporary directory.
Clone ==
    /\ pc = "clone"
    /\ LET remote == origin[Coordinates(users[u])]
       IN  clones' = [clones EXCEPT ![u] = [worktree |-> remote.WORKSPACE,
                                            index |-> remote.WORKSPACE,
                                            HEAD |-> remote.WORKSPACE,
                                            log |-> remote.log,
                                            cloned |-> remote]]
    /\ trace' = Append(trace, Call("clone", u))
    /\ pc' = "checkout"
    /\ UNCHANGED <<dependency, users, u, should_commit, located, exit_code, raised, ret>>
    /\ UNCHANGED <<inputs, remotes>>

\* Lines 150-154: git checkout, clone_dir set; then (line 220-221) the print
\* of main and the ensure_cloned wrapper of replace_marker.
Checkout ==
    /\ pc = "checkout"
    /\ LET temp_dir == mkdtemp(u, Cardinality({k \in 1..Len(trace) :
                                 /\ trace[k].run = run
                                 /\ trace[k].kind = "call"
                                 /\ trace[k].what = "clone"
                                 /\ trace[k].who = u}), users[u].repo)
           self == [users[u] EXCEPT !.clone_dir = temp_dir]
       IN  /\ users' = [users EXCEPT ![u] = self]
           /\ IF ret = "main"
              THEN /\ trace' = trace \o <<Call("checkout", u), Say("cloned to", u)>>
                   /\ IF ensure_cloned(self)
                      THEN pc' = StartClone(self) /\ ret' = "ensure_cloned"
                      ELSE pc' = "rewrite" /\ ret' = "main"
              ELSE IF ret = "caller"
              THEN \* clone() was called directly: line 154 returns the path
                   /\ trace' = trace \o <<Call("checkout", u),
                                           Returns("clone", u, self.clone_dir)>>
                   /\ pc' = "idle"
                   /\ ret' = "main"
              ELSE /\ trace' = Append(trace, Call("checkout", u))
                   /\ pc' = "rewrite"
                   /\ ret' = "main"
    /\ UNCHANGED <<dependency, u, clones, should_commit, located, exit_code, raised>>
    /\ UNCHANGED <<inputs, remotes>>

\* replace_marker whose else branch prints and does not return.
Rewrite_no_return ==
    /\ pc = "rewrite"
    /\ LET workspace_content == readlines(clones[u].worktree)
           i == locate(workspace_content, marker(dependency.repo), 1)
       IN  /\ located' = i
           /\ IF i = 0
              THEN /\ trace' = Append(trace, Say("no dependency marker", u))
                   /\ clones' = [clones EXCEPT ![u].worktree = writelines(workspace_content)]
                   /\ pc' = "add"
                   /\ UNCHANGED <<u, exit_code, raised, ret>>
              ELSE IF ~last_commit_cached(dependency)
              THEN /\ pc' = "last_commit"
                   /\ ret' = "rewrite"
                   /\ UNCHANGED <<u, clones, exit_code, raised, trace>>
              ELSE /\ clones' = [clones EXCEPT ![u].worktree =
                          writelines(replace_loop(workspace_content,
                                                  marker(dependency.repo),
                                                  dependency.last_commit).content)]
                   /\ pc' = "add"
                   /\ UNCHANGED <<u, exit_code, raised, ret, trace>>
    /\ UNCHANGED <<dependency, users, should_commit>>
    /\ UNCHANGED <<inputs, remotes>>

\* Lines 159-174: the manifest is read, the marker line located and
\* rewritten, and the file written back; or the for/else prints and returns.
Rewrite ==
    /\ pc = "rewrite"
    /\ LET workspace_content == readlines(clones[u].worktree)
           i == locate(workspace_content, marker(dependency.repo), 1)
       IN  /\ located' = i
           /\ IF i = 0
              THEN /\ trace' = Append(trace, Say("no dependency marker", u))
                   /\ NextUser
                   /\ UNCHANGED <<clones, ret>>
              ELSE IF ~last_commit_cached(dependency)
              THEN \* other_repo.last_commit queries the remote first
                   /\ pc' = "last_commit"
                   /\ ret' = "rewrite"
                   /\ UNCHANGED <<u, clones, exit_code, raised, trace>>
              ELSE /\ clones' = [clones EXCEPT ![u].worktree =
                          writelines(replace_loop(workspace_content,
                                                  marker(dependency.repo),
                                                  dependency.last_commit).content)]
                   /\ pc' = "add"
                   /\ UNCHANGED <<u, exit_code, raised, ret, trace>>
    /\ UNCHANGED <<dependency, users, should_commit>>
    /\ UNCHANGED <<inputs, remotes>>

\* git add followed directly by the commit, without the status check.
GitAdd_no_status ==
    /\ pc = "add"
    /\ clones' = [clones EXCEPT ![u].index = clones[u].worktree]
    /\ trace' = Append(trace, Call("add", u))
    /\ pc' = "commit"
    /\ UNCHANGED <<dependency, users, u, should_commit, located, exit_code, raised, ret>>
    /\ UNCHANGED <<inputs, remotes>>

\* Line 176: git add WORKSPACE.
GitAdd ==
    /\ pc = "add"
    /\ clones' = [clones EXCEPT ![u].index = clones[u].worktree]
    /\ trace' = Append(trace, Call("add", u))
    /\ pc' = "status"
    /\ UNCHANGED <<dependency, users, u, should_commit, located, exit_code, raised, ret>>
    /\ UNCHANGED <<inputs, remotes>>

\* git status with the test of the clean-tree message inverted.
GitStatus_inverted ==
    /\ pc = "status"
    /\ should_commit' = Contains(git_status(clones[u]), <<CLEAN_TREE_MSG>>)
    /\ IF ~should_commit'
       THEN /\ trace' = trace \o <<Call("status", u),
                                     SayRev("already depends", u, dependency.last_commit)>>
            /\ NextUser
       ELSE /\ trace' = Append(trace, Call("status", u))
            /\ pc' = "commit"
            /\ UNCHANGED <<u, exit_code, raised>>
    /\ UNCHANGED <<dependency, users, clones, located, ret>>
    /\ UNCHANGED <<inputs, remotes>>

\* Lines 177-186: git status; a clean tree prints and returns.
GitStatus ==
    /\ pc = "status"
    /\ should_commit' = ~Contains(git_status(clones[u]), <<CLEAN_TREE_MSG>>)
    /\ IF ~should_commit'
       THEN /\ trace' = trace \o <<Call("status", u),
                                     SayRev("already depends", u, dependency.last_commit)>>
            /\ NextUser
       ELSE /\ trace' = Append(trace, Call("status", u))
            /\ pc' = "commit"
            /\ UNCHANGED <<u, exit_code, raised>>
    /\ UNCHANGED <<dependency, users, clones, located, ret>>
    /\ UNCHANGED <<inputs, remotes>>

\* Lines 188-192: git commit -m.
GitCommit ==
    /\ pc = "commit"
    /\ clones' = [clones EXCEPT ![u].HEAD = clones[u].index,
                                ![u].log = Append(clones[u].log, commit_message(dependency))]
    /\ trace' = trace \o <<Call("commit", u), Say("pushing", u)>>
    /\ pc' = "push"
    /\ UNCHANGED <<dependency, users, u, should_commit, located, exit_code, raised, ret>>
    /\ UNCHANGED <<inputs, remotes>>

\* Lines 194-196: git push; replace_marker returns.
GitPush ==
    /\ pc = "push"
    /\ origin' = [origin EXCEPT ![Coordinates(users[u])] =
                      [WORKSPACE |-> clones[u].HEAD, log |-> clones[u].log]]
    /\ trace' = trace \o <<Call("push", u), Say("pushed", u)>>
    /\ NextUser
    /\ UNCHANGED <<dependency, users, clones, should_commit, located, ret>>
    /\ UNCHANGED <<inputs, remote_tip>>

\* The subprocess call each position of main makes.
Command(at) ==
    CASE at = "last_commit" -> "ls-remote"
      [] at = "configure" -> "config"
      [] at = "clone" -> "clone"
      [] at = "checkout" -> "checkout"
      [] at = "add" -> "add"
      [] at = "status" -> "status"
      [] at = "commit" -> "commit"
      [] at = "push" -> "push"

SubprocessSteps ==
    {"last_commit", "configure", "clone", "checkout", "add", "status", "commit", "push"}

\* The calls made with subprocess.check_call (lines 147 and 150): their
\* output goes to the terminal; every other call is a check_output.
CheckCallCommands == {"clone", "checkout"}

\* The exit status of a failed git command: git's status for a fatal error.
\* The program only formats it into the diagnostic.
ReturnCodes == {128}

\* ex.output of the CalledProcessError a failed command raises, formatted:
\* check_output attaches what it captured, check_call attaches nothing
\* (None).
ex_output(cmd) == IF cmd \in CheckCallCommands THEN "None" ELSE "captured output"

\* The message exception_handler prints: ex.cmd, ex.returncode, ex.output.
Diagnostic(cmd, who, returncode) ==
    SayRev("An error occurred", who, <<cmd, ToString(returncode), ex_output(cmd)>>)

\* exception_handler that prints and does not raise the error again.
CalledProcessError_swallowed ==
    /\ pc \in SubprocessSteps
    /\ \E returncode \in ReturnCodes :
          LET who == IF pc = "last_commit" THEN 0 ELSE u
          IN  trace' = trace \o <<FailedCall(Command(pc), who),
                                  Diagnostic(Command(pc), who, returncode)>>
    /\ Exits(0, "none")
    /\ UNCHANGED <<dependency, users, u, clones, should_commit, located, ret>>
    /\ UNCHANGED <<inputs, remotes>>

\* Lines 69-75: a subprocess exits non-zero; exception_handler prints the
\* command, the exit code and the output, and raises the error again.
CalledProcessError ==
    /\ pc \in SubprocessSteps
    /\ \E returncode \in ReturnCodes :
          LET who == IF pc = "last_commit" THEN 0 ELSE u
          IN  trace' = trace \o <<FailedCall(Command(pc), who),
                                  Diagnostic(Command(pc), who, returncode)>>
    /\ Exits(1, "CalledProcessError")
    /\ UNCHANGED <<dependency, users, u, clones, should_commit, located, ret>>
    /\ UNCHANGED <<inputs, remotes>>

(***************************************************************************)
(* The environment of a run.                                               *)
(***************************************************************************)
\* A commit lands on the dependency's remote branch: its tip moves from the
\* older revision to the newer one.  Only git ls-remote reads the tip, so a
\* move while no process is past the start of main is the move made just
\* before the next query.
DepTipMoves ==
    /\ remote_tip = RevA
    /\ pc \notin {"main", "exited"}
    /\ remote_tip' = RevB
    /\ UNCHANGED <<origin, procvars, trace, inputs>>

\* The script is run again, with the same command line and environment,
\* after a full sync that exited 0.
Rerun ==
    /\ pc = "exited"
    /\ exit_code = 0
    /\ users # <<>>
    /\ run < MaxRuns
    /\ run' = run + 1
    /\ pc' = "main"
    /\ dependency' = None
    /\ users' = <<>>
    /\ u' = 0
    /\ clones' = <<>>
    /\ should_commit' = FALSE
    /\ located' = 0
    /\ raised' = "none"
    /\ ret' = "main"
    /\ UNCHANGED <<exit_code, trace, environ, arguments, call, remotes>>

Next ==
    \/ MainNotUpstream
    \/ MainMissingCredential
    \/ MainConstruct
    \/ LsRemote
    \/ Configure
    \/ Clone
    \/ Checkout
    \/ Rewrite
    \/ GitAdd
    \/ GitStatus
    \/ GitCommit
    \/ GitPush
    \/ CalledProcessError
    \/ DepTipMoves
    \/ Rerun

Spec == Init /\ [][Next]_vars

(***************************************************************************)
(* The methods of one GitRepo called directly, in any order: clone() and   *)
(* replace_marker(dependency) on a dependent built as main builds it.      *)
(***************************************************************************)
InitCalls ==
    /\ environ = [CIRCLE_REPOSITORY_URL |-> UpstreamUrl, GRABL_CREDENTIAL |-> <<"s3cr3t">>]
    /\ arguments = [dependency |-> Coord(Client, Master), user |-> <<Coord(Docs, Master)>>]
    /\ remote_tip = RevA
    /\ origin \in [Dependents -> [WORKSPACE : Manifests, log : {<<>>}]]
    /\ run = 1
    /\ pc = "idle"
    /\ dependency = GitRepo(arguments.dependency, environ)
    /\ users = <<GitRepo(arguments.user[1], environ)>>
    /\ u = 1
    /\ clones = <<NoClone>>
    /\ should_commit = FALSE
    /\ located = 0
    /\ exit_code = 0
    /\ raised = "none"
    /\ ret = "main"
    /\ trace = <<>>
    /\ call = [NoCall EXCEPT !.fn = "idle"]

\* user.clone(): the ensure_configured wrapper, then the method.
CallClone ==
    /\ pc = "idle"
    /\ call.calls < MaxCalls
    /\ call' = [call EXCEPT !.fn = "clone", !.calls = @ + 1]
    /\ pc' = StartClone(users[u])
    /\ ret' = "caller"
    /\ UNCHANGED <<environ, arguments, run, remotes, trace>>
    /\ UNCHANGED <<dependency, users, u, clones, should_commit, located, exit_code, raised>>

\* user.replace_marker(dependency): the ensure_cloned wrapper, then the method.
CallReplaceMarker ==
    /\ pc = "idle"
    /\ call.calls < MaxCalls
    /\ call' = [call EXCEPT !.fn = "replace_marker", !.calls = @ + 1]
    /\ IF ensure_cloned(users[u])
       THEN pc' = StartClone(users[u]) /\ ret' = "ensure_cloned"
       ELSE pc' = "rewrite" /\ ret' = "main"
    /\ UNCHANGED <<environ, arguments, run, remotes, trace>>
    /\ UNCHANGED <<dependency, users, u, clones, should_commit, located, exit_code, raised>>

NextCalls ==
    \/ CallClone
    \/ CallReplaceMarker
    \/ LsRemote
    \/ Configure
    \/ Clone
    \/ Checkout
    \/ Rewrite
    \/ GitAdd
    \/ GitStatus
    \/ GitCommit
    \/ GitPush
    \/ CalledProcessError

SpecCalls == InitCalls /\ [][NextCalls]_vars

(***************************************************************************)
(* The pure functions called on their own: the substitution of line 165    *)
(* and the loop of lines 163-171, on inputs drawn from bounded sets.       *)
(***************************************************************************)
\* A lower-case hex letter, a hex digit, and an upper-case letter the
\* pattern does not match.
LineAlphabet == {"a", "9", "A"}
Lines == UNION {[1..n -> LineAlphabet] : n \in 0..MaxLineLen}
LineRevisions == [1..HashLen -> {"a", "9"}]

ScanLines == {PlainLine, TaggedLine(ClientWs, RevB), TaggedLine(ClientPythonWs, RevB),
              BareLine(ClientWs)}
ScanContents == UNION {[1..n -> ScanLines] : n \in 0..MaxLines}
ScanTags == {marker(Client), marker(ClientPython), marker(GRAKN_CORE_REPO_NAME)}

\* Repository names: every name of up to MaxNameLen characters over a
\* letter, the dash and the underscore, the irregular name, and names that
\* extend it.
NameAlphabet == {"a", "-", "_"}
GraknCore == GRAKN_CORE_REPO_NAME \o <<"-", "c", "o", "r", "e">>
RepoNames ==
    UNION {[1..n -> NameAlphabet] : n \in 0..MaxNameLen}
        \cup {GRAKN_CORE_REPO_NAME, GraknCore, <<"-">> \o GRAKN_CORE_REPO_NAME,
              Client, ClientPython}

InitFn ==
    /\ environ = [CIRCLE_REPOSITORY_URL |-> UpstreamUrl]
    /\ arguments = [dependency |-> Client, user |-> <<Docs>>]
    /\ remote_tip = None
    /\ origin = [c \in Dependents |-> [WORKSPACE |-> PlainLine, log |-> <<>>]]
    /\ run = 1
    /\ ProcessStart
    /\ trace = <<>>
    /\ \/ \E line \in Lines, rev \in LineRevisions :
             call = [NoCall EXCEPT !.fn = "re_sub", !.line = line, !.rev = rev]
       \/ \E lines \in ScanContents, tag \in ScanTags :
             call = [NoCall EXCEPT !.fn = "replace_loop", !.lines = lines, !.tag = tag,
                                   !.rev = RevA]
       \/ \E name \in RepoNames :
             call = [NoCall EXCEPT !.fn = "bazel_workspace", !.line = name]

\* re.sub is applied to the line, and then to its own result.
CallReSub ==
    /\ call.fn = "re_sub"
    /\ call.calls < 2
    /\ call' = [call EXCEPT
                   !.calls = @ + 1,
                   !.first = IF call.calls = 0 THEN re_sub(call.rev, call.line) ELSE @,
                   !.result = re_sub(call.rev, IF call.calls = 0 THEN call.line ELSE @)]
    /\ UNCHANGED <<environ, arguments, run, remotes, procvars, trace>>

\* The loop of replace_marker is run on the lines.
CallReplaceLoop ==
    /\ call.fn = "replace_loop"
    /\ call.calls = 0
    /\ LET r == replace_loop(call.lines, call.tag, call.rev)
       IN  call' = [call EXCEPT !.calls = 1, !.index = r.index, !.result = r.content]
    /\ UNCHANGED <<environ, arguments, run, remotes, procvars, trace>>

\* The bazel_workspace property is read, and read again.
CallBazelWorkspace ==
    /\ call.fn = "bazel_workspace"
    /\ call.calls < 2
    /\ call' = [call EXCEPT
                   !.calls = @ + 1,
                   !.first = IF call.calls = 0 THEN bazel_workspace(call.line) ELSE @,
                   !.result = bazel_workspace(call.line)]
    /\ UNCHANGED <<environ, arguments, run, remotes, procvars, trace>>

NextFn ==
    \/ CallReSub
    \/ CallReplaceLoop
    \/ CallBazelWorkspace

SpecFn == InitFn /\ [][NextFn]_vars

(***************************************************************************)
(* Properties of the substitution and of the marker scan (SpecFn).         *)
(***************************************************************************)
\* A revision-shaped substring starts at position p of line.
HashAt(line, p) ==
    /\ p + HashLen - 1 <= Len(line)
    /\ \A k \in p..(p + HashLen - 1) : line[k] \in HexDigits

HashPositions(line) == {p \in 1..Len(line) : HashAt(line, p)}

\* C4: re.sub replaces the leftmost revision-shaped substring of the line by
\* the new revision and nothing else: the text before it and the text after
\* it, later revision-shaped substrings included, are kept; a line without
\* such a substring is returned as it is.
C4_RewriteReplacesFirstOnly ==
    (call.fn = "re_sub" /\ call.calls >= 1) =>
        LET line == call.line
            out == call.first
            hits == HashPositions(line)
        IN  IF hits = {} THEN out = line
            ELSE \E p \in hits :
                    /\ \A q \in hits : p <= q
                    /\ Len(out) = Len(line) - HashLen + Len(call.rev)
                    /\ SubSeq(out, 1, p - 1) = SubSeq(line, 1, p - 1)
                    /\ SubSeq(out, p, p + Len(call.rev) - 1) = call.rev
                    /\ SubSeq(out, p + Len(call.rev), Len(out))
                           = SubSeq(line, p + HashLen, Len(line))

\* A line with text before its first revision and a second, different
\* revision after it has been rewritten: only the first one changed.
C4_Witness ==
    /\ call.fn = "re_sub"
    /\ call.calls >= 1
    /\ \E p, q \in HashPositions(call.line) :
          /\ p > 1
          /\ \A r \in HashPositions(call.line) : p <= r
          /\ q >= p + HashLen
          /\ SubSeq(call.line, p, p + HashLen - 1) # call.rev
          /\ SubSeq(call.line, q, q + HashLen - 1) # call.rev
          /\ SubSeq(call.first, p, p + HashLen - 1) = call.rev
          /\ SubSeq(call.first, q, q + HashLen - 1) = SubSeq(call.line, q, q + HashLen - 1)

\* C5: re.sub applied to its own result with the same revision returns that
\* result: the second application changes nothing.
C5_RewriteIdempotent ==
    (call.fn = "re_sub" /\ call.calls = 2) => call.result = call.first

\* The second application has run on a line the first one changed, whose
\* revision was followed directly by another hex digit.
C5_Witness ==
    /\ call.fn = "re_sub"
    /\ call.calls = 2
    /\ call.first # call.line
    /\ call.result = call.first
    /\ \E p \in HashPositions(call.line) :
          /\ \A r \in HashPositions(call.line) : p <= r
          /\ p + HashLen <= Len(call.line)
          /\ call.line[p + HashLen] \in HexDigits

\* The lines of the scan that contain the tag.
TaggedIndexes(lines, tag) == {i \in 1..Len(lines) : Contains(lines[i], tag)}

\* C6: the scan ends in its else branch when no line contains the tag, and
\* otherwise stops at the first line, in file order, that contains it; no
\* other line is changed, later lines that contain the tag included.
C6_LocateFirstOrAbsent ==
    (call.fn = "replace_loop" /\ call.calls = 1) =>
        LET hits == TaggedIndexes(call.lines, call.tag)
        IN  /\ Len(call.result) = Len(call.lines)
            /\ hits = {} => call.index = 0 /\ call.result = call.lines
            /\ hits # {} =>
                  /\ call.index \in hits
                  /\ \A j \in hits : call.index <= j
                  /\ \A j \in 1..Len(call.lines) :
                        j # call.index => call.result[j] = call.lines[j]

\* Two lines contain the tag, with an untagged line before them: the first
\* tagged one was rewritten and the second one, which held the same old
\* revision, was not.
C6_Witness ==
    /\ call.fn = "replace_loop"
    /\ call.calls = 1
    /\ \E i, j \in TaggedIndexes(call.lines, call.tag) :
          /\ 1 < i
          /\ i < j
          /\ call.index = i
          /\ call.lines[i] = call.lines[j]
          /\ call.result[i] # call.lines[i]
          /\ call.result[j] = call.lines[j]

(***************************************************************************)
(* Properties of a run (Spec).                                             *)
(***************************************************************************)
\* The trace entries of run r that are subprocess calls of `what` for user i.
CallsIn(r, what, i) ==
    {k \in 1..Len(trace) :
        /\ trace[k].run = r
        /\ trace[k].kind = "call"
        /\ trace[k].what = what
        /\ trace[k].who = i}

\* Run r printed the message `what` about user i.
PrintedIn(r, what, i) ==
    \E k \in 1..Len(trace) :
        /\ trace[k].run = r
        /\ trace[k].kind = "print"
        /\ trace[k].what = what
        /\ trace[k].who = i

\* replace_marker has returned for user i in the current run.
Returned(i) ==
    /\ i \in 1..Len(users)
    /\ \/ u > i
       \/ u = i /\ pc = "exited" /\ raised = "none"

\* The manifest user i cloned has a line with the dependency's marker.
MarkerFound(i) ==
    TaggedIndexes(readlines(clones[i].cloned.WORKSPACE), marker(dependency.repo)) # {}

\* C1: commit and push are attempted only for a dependent whose rewritten
\* manifest differs from the cloned one; and when replace_marker returns for
\* a dependent whose marker line was found, either the manifest is unchanged,
\* the no-op message was printed and no commit nor push was made, or it
\* changed and exactly one commit was made and then exactly one push.
C1_CommitIffChanged ==
    \A i \in 1..Len(users) :
        LET changed == clones[i].worktree # clones[i].cloned.WORKSPACE
            commits == CallsIn(run, "commit", i)
            pushes == CallsIn(run, "push", i)
        IN  /\ (commits # {} \/ pushes # {}) => MarkerFound(i) /\ changed
            /\ pushes # {} => \E c \in commits : trace[c].ok /\ \A q \in pushes : c < q
            /\ (Returned(i) /\ MarkerFound(i)) =>
                  IF changed
                  THEN /\ Cardinality(commits) = 1
                       /\ Cardinality(pushes) = 1
                       /\ \A k \in commits \cup pushes : trace[k].ok
                       /\ PrintedIn(run, "pushed", i)
                       /\ ~PrintedIn(run, "already depends", i)
                  ELSE /\ commits = {}
                       /\ pushes = {}
                       /\ PrintedIn(run, "already depends", i)

\* replace_marker has returned for two dependents with a marker line: one
\* was changed, committed and pushed, the other was already up to date.
C1_Witness ==
    \E i, j \in 1..Len(users) :
        /\ Returned(i) /\ MarkerFound(i)
        /\ Returned(j) /\ MarkerFound(j)
        /\ CallsIn(run, "push", i) # {}
        /\ CallsIn(run, "commit", j) = {}
        /\ PrintedIn(run, "already depends", j)

\* The revisions run r printed as the dependency's latest commit.
LatestPrinted(r) ==
    {trace[k].arg : k \in {j \in 1..Len(trace) :
                              trace[j].run = r /\ trace[j].what = "latest commit"}}

\* C2: a run that follows a run which exited 0, and resolves the same
\* revision of the dependency, makes no commit and no push, and reports the
\* no-op for every dependent that has a marker line.
C2_SecondRunNoOp ==
    \A r \in 2..run :
        (LatestPrinted(r) # {} /\ LatestPrinted(r) = LatestPrinted(r - 1)) =>
            /\ \A k \in 1..Len(trace) :
                  (trace[k].run = r /\ trace[k].kind = "call")
                      => trace[k].what \notin {"commit", "push"}
            /\ r = run =>
                  \A i \in 1..Len(users) :
                      (Returned(i) /\ MarkerFound(i)) => PrintedIn(r, "already depends", i)

\* The first run pushed a change, the second run resolved the same revision
\* and ended with the no-op for that dependent.
C2_Witness ==
    /\ run = 2
    /\ pc = "exited"
    /\ exit_code = 0
    /\ LatestPrinted(2) # {}
    /\ LatestPrinted(2) = LatestPrinted(1)
    /\ \E i \in 1..Len(users) :
          /\ CallsIn(1, "push", i) # {}
          /\ PrintedIn(2, "already depends", i)

\* The commit message expected for each well-formed --dependency token.
ExpectedMessage ==
    IF arguments.dependency = Coord(Client, Master)
    THEN <<"update @", "graknlabs_", "c", "l", "i", "e", "n", "t",
           " dependency to latest ", "master">>
    ELSE <<"update @", "graknlabs_", "g", "r", "a", "k", "n", "_", "c", "o", "r", "e",
           " dependency to latest ", "master">>

\* The least element of a non-empty set of numbers.
Least(S) == CHOOSE p \in S : \A q \in S : p <= q

\* User i cloned a manifest whose located line holds a revision other than
\* the dependency's latest one.
Outdated(i) ==
    LET old == readlines(clones[i].cloned.WORKSPACE)
        hits == TaggedIndexes(old, marker(dependency.repo))
    IN  /\ hits # {}
        /\ HashPositions(old[Least(hits)]) # {}
        /\ LET p == Least(HashPositions(old[Least(hits)]))
           IN  SubSeq(old[Least(hits)], p, p + HashLen - 1) # dependency.last_commit

\* C3: when replace_marker has returned for a dependent whose located line
\* held another revision, the manifest at the remote is the cloned one with
\* that revision replaced by the dependency's latest revision, every other
\* character and line as it was, and the remote branch has exactly one new
\* commit, with the message naming the dependency's workspace and branch.
C3_PushedManifest ==
    \A i \in 1..Len(users) :
        (Returned(i) /\ Outdated(i)) =>
            LET old == readlines(clones[i].cloned.WORKSPACE)
                remote == origin[Coordinates(users[i])]
                new == readlines(remote.WORKSPACE)
                k == Least(TaggedIndexes(old, marker(dependency.repo)))
                p == Least(HashPositions(old[k]))
            IN  /\ Len(new) = Len(old)
                /\ Len(remote.WORKSPACE) = Len(clones[i].cloned.WORKSPACE)
                /\ \A j \in 1..Len(old) : j # k => new[j] = old[j]
                /\ Len(new[k]) = Len(old[k])
                /\ \A c \in 1..Len(old[k]) :
                      new[k][c] = IF c \in p..(p + HashLen - 1)
                                  THEN dependency.last_commit[c - p + 1]
                                  ELSE old[k][c]
                /\ remote.log = Append(clones[i].cloned.log, ExpectedMessage)

\* A three-line manifest whose middle line was outdated has been pushed.
C3_Witness ==
    \E i \in 1..Len(users) :
        /\ Returned(i)
        /\ Outdated(i)
        /\ Len(readlines(clones[i].cloned.WORKSPACE)) = 3
        /\ origin[Coordinates(users[i])].WORKSPACE # clones[i].cloned.WORKSPACE
        /\ Len(origin[Coordinates(users[i])].log) = 1

\* git checkout has succeeded for user i in the current run.
CheckedOut(i) == \E k \in CallsIn(run, "checkout", i) : trace[k].ok

\* C7: a dependent whose manifest has no line with the dependency's marker
\* is skipped: its clone is left as cloned, nothing is staged, committed or
\* pushed for it, the message about the missing marker is printed, the loop
\* goes on to the next dependent (or main ends normally after the last one),
\* and the run never ends in an error at that dependent.
C7_MarkerAbsentSkips ==
    \A i \in 1..Len(users) :
        (CheckedOut(i) /\ ~MarkerFound(i)) =>
            /\ clones[i].worktree = clones[i].cloned.WORKSPACE
            /\ clones[i].index = clones[i].cloned.WORKSPACE
            /\ clones[i].HEAD = clones[i].cloned.WORKSPACE
            /\ clones[i].log = clones[i].cloned.log
            /\ origin[Coordinates(users[i])] = clones[i].cloned
            /\ \A what \in {"add", "status", "commit", "push"} : CallsIn(run, what, i) = {}
            /\ \/ u = i /\ pc = "rewrite" /\ ~PrintedIn(run, "no dependency marker", i)
               \/ Returned(i) /\ PrintedIn(run, "no dependency marker", i)
            /\ (Returned(i) /\ i < Len(users)) => u > i

\* The first of two dependents had no marker line and was skipped; the
\* second one was then rewritten and pushed.
C7_Witness ==
    /\ Len(users) = 2
    /\ CheckedOut(1)
    /\ ~MarkerFound(1)
    /\ PrintedIn(run, "no dependency marker", 1)
    /\ \E k \in CallsIn(run, "push", 2) : trace[k].ok
    /\ pc = "exited"
    /\ exit_code = 0

\* The failed subprocess calls of run r.
FailedCalls(r) ==
    {k \in 1..Len(trace) : trace[k].run = r /\ trace[k].kind = "call" /\ ~trace[k].ok}

\* C8: a failed git action is the last git action of the run: the run ends
\* at once with a non-zero exit, no action is made for a later dependent,
\* and what was pushed for earlier dependents stays at the remote; a run
\* that reached the loop over the dependents exits 0 exactly when no git
\* action failed, and then every dependent was processed, the manifest of
\* each one that has a marker line being at the remote as rewritten.
C8_AbortOnFirstFailure ==
    /\ \A k \in FailedCalls(run) :
          /\ pc = "exited"
          /\ exit_code # 0
          /\ raised = "CalledProcessError"
          /\ u = trace[k].who
          /\ \A j \in 1..Len(trace) :
                (trace[j].run = run /\ trace[j].kind = "call" /\ j # k) =>
                    /\ j < k
                    /\ trace[j].ok
                    /\ trace[j].who <= trace[k].who
    /\ \A i \in 1..Len(users) :
          (\E k \in CallsIn(run, "push", i) : trace[k].ok) =>
              /\ origin[Coordinates(users[i])].WORKSPACE = clones[i].HEAD
              /\ origin[Coordinates(users[i])].log = clones[i].log
    /\ (pc = "exited" /\ u >= 1) => (exit_code = 0 <=> FailedCalls(run) = {})
    /\ (pc = "exited" /\ u >= 1 /\ exit_code = 0) =>
          /\ u = Len(users)
          /\ \A i \in 1..Len(users) :
                /\ Returned(i)
                /\ CheckedOut(i)
                /\ MarkerFound(i) =>
                      /\ \E k \in CallsIn(run, "status", i) : trace[k].ok
                      /\ origin[Coordinates(users[i])].WORKSPACE = clones[i].worktree

\* A git action failed for the second dependent after the first one was
\* pushed: the run ended non-zero and the first push is still at the remote.
C8_Witness ==
    /\ pc = "exited"
    /\ exit_code # 0
    /\ u = 2
    /\ \E k \in FailedCalls(run) : trace[k].who = 2
    /\ \E k \in CallsIn(run, "push", 1) : trace[k].ok
    /\ Len(origin[Coordinates(users[1])].log) = 1
    /\ origin[Coordinates(users[1])].WORKSPACE # clones[1].cloned.WORKSPACE

CredentialAbsent == "GRABL_CREDENTIAL" \notin DOMAIN environ

\* The CI indicator names the upstream organisation.
IndicatorUpstream ==
    /\ "CIRCLE_REPOSITORY_URL" \in DOMAIN environ
    /\ environ["CIRCLE_REPOSITORY_URL"] = UpstreamUrl

\* C9: without the credential variable no subprocess is ever run, whatever
\* the CI indicator and the command line are: no GitRepo is built, main goes
\* from its start straight to its end, and the remote is left as it was.
C9_NoCredentialNoGitAction ==
    CredentialAbsent =>
        /\ \A k \in 1..Len(trace) : trace[k].kind # "call"
        /\ pc \in {"main", "exited"}
        /\ users = <<>>
        /\ \A c \in Dependents : origin[c].log = <<>>

\* A run in the upstream CI with a well-formed command line and no
\* credential has ended.
C9_Witness ==
    /\ CredentialAbsent
    /\ IndicatorUpstream
    /\ arguments.dependency = Coord(Client, Master)
    /\ arguments.user = <<Coord(Docs, Master), Coord(Kglib, Master)>>
    /\ pc = "exited"
    /\ \A k \in 1..Len(trace) : trace[k].kind # "call"

\* C10 as stated: every run without the credential variable ends in the
\* configuration error, whatever the CI indicator says.
C10_Original ==
    (CredentialAbsent /\ pc = "exited") => (exit_code # 0 /\ raised = "ValueError")

\* C10, amended: a run without the credential variable ends in the
\* configuration error (ValueError, non-zero exit, nothing printed or run)
\* when the CI indicator names the upstream organisation, and exits 0
\* without looking at the credential when it does not.
C10_MissingCredentialFatalUpstream ==
    (CredentialAbsent /\ pc = "exited") =>
        IF IndicatorUpstream
        THEN exit_code # 0 /\ raised = "ValueError" /\ trace = <<>>
        ELSE exit_code = 0 /\ raised = "SystemExit"

\* The first run, in the upstream CI and without the credential, has ended
\* in the ValueError.
C10_Witness ==
    /\ CredentialAbsent
    /\ IndicatorUpstream
    /\ run = 1
    /\ pc = "exited"
    /\ exit_code = 1
    /\ raised = "ValueError"

C12_WorkspaceOfName ==
    (call.fn = "bazel_workspace" /\ call.calls >= 1) =>
        LET name == call.line
            out == call.result
        IN  /\ call.result = call.first
            /\ IF name = <<"g", "r", "a", "k", "n">>
               THEN out = <<"graknlabs_", "g", "r", "a", "k", "n", "_", "c", "o", "r", "e">>
               ELSE /\ Len(out) = Len(name) + 1
                    /\ out[1] = "graknlabs_"
                    /\ \A k \in 1..Len(name) :
                          out[k + 1] = IF name[k] = "-" THEN "_" ELSE name[k]
            /\ (name # <<"g", "r", "a", "k", "n">> /\ \A k \in 1..Len(name) : name[k] # "-")
                  => out = <<"graknlabs_">> \o name

\* The identifier of a name with two dashes has been read twice.
C12_Witness ==
    /\ call.fn = "bazel_workspace"
    /\ call.calls = 2
    /\ Cardinality({k \in 1..Len(call.line) : call.line[k] = "-"}) = 2
    /\ \A k \in 1..Len(call.result) : call.result[k] # "-"

(***************************************************************************)
(* Properties of a run, continued (Spec).                                  *)
(***************************************************************************)
\* The subprocess calls of `what` in run r, for any object.
CallsOf(r, what) ==
    {k \in 1..Len(trace) :
        trace[k].run = r /\ trace[k].kind = "call" /\ trace[k].what = what}

\* C13: in every run git config is run at most once, and every git clone of
\* the run comes after a git config that succeeded.
C13_ConfigureOnce ==
    \A r \in 1..run :
        /\ Cardinality(CallsOf(r, "config")) <= 1
        /\ \A k \in CallsOf(r, "clone") :
              \E c \in CallsOf(r, "config") : c < k /\ trace[c].ok

(***************************************************************************)
(* clone() and replace_marker() called directly (SpecCalls).               *)
(***************************************************************************)
\* The paths the direct calls of clone() returned, in order.
ReturnedPaths ==
    {k \in 1..Len(trace) : trace[k].kind = "return" /\ trace[k].what = "clone"}

\* C14: whatever calls of clone() and replace_marker() are made on one
\* GitRepo, git clone is run at most once for it, exactly once when a call
\* has returned, and every call of clone() returns the same path.
C14_CloneMemoized ==
    /\ Cardinality(CallsIn(run, "clone", 1)) <= 1
    /\ (pc = "idle" /\ call.calls >= 1) => Cardinality(CallsIn(run, "clone", 1)) = 1
    /\ \A j, k \in ReturnedPaths : trace[j].arg = trace[k].arg

(***************************************************************************)
(* Properties of a run, continued (Spec).                                  *)
(***************************************************************************)
\* User i is past the rewrite of its manifest in the current run.
Rewritten(i) == CallsIn(run, "add", i) # {}

\* C15: a run queries the remote for the dependency's revision at most
\* once; the revision it printed is the one the object holds from then on,
\* the one every no-op message of the run names and the one written on the
\* located line of every dependent of the run, wherever the remote tip is
\* by then.
C15_RevisionResolvedOnce ==
    LET latest == LatestPrinted(run)
    IN  /\ Cardinality(CallsOf(run, "ls-remote")) <= 1
        /\ Cardinality(latest) <= 1
        /\ \A k \in 1..Len(trace) :
              (trace[k].run = run /\ trace[k].kind = "print"
                    /\ trace[k].what = "already depends")
                  => trace[k].arg \in latest
        /\ users # <<>> =>
              /\ dependency.last_commit # None => latest = {dependency.last_commit}
              /\ \A i \in 1..Len(users) :
                    Rewritten(i) =>
                        LET old == readlines(clones[i].cloned.WORKSPACE)
                            new == readlines(clones[i].worktree)
                            k == Least(TaggedIndexes(old, marker(dependency.repo)))
                        IN  HashPositions(old[k]) # {} =>
                                LET p == Least(HashPositions(old[k]))
                                IN  {SubSeq(new[k], p, p + HashLen - 1)} = latest

\* The remote tip moved after the run resolved the older revision; both
\* dependents were rewritten with the older one and pushed.
C15_Witness ==
    /\ remote_tip = RevB
    /\ LatestPrinted(run) = {RevA}
    /\ Len(users) = 2
    /\ pc = "exited"
    /\ exit_code = 0
    /\ \A i \in 1..2 :
          /\ \E k \in CallsIn(run, "push", i) : trace[k].ok
          /\ Contains(origin[Coordinates(users[i])].WORKSPACE, RevA)
          /\ ~Contains(clones[i].cloned.WORKSPACE, RevA)

\* The place of each subprocess call in the order of a run.
Rank(what) ==
    CASE what = "ls-remote" -> 0
      [] what = "config" -> 1
      [] what = "clone" -> 2
      [] what = "checkout" -> 3
      [] what = "add" -> 4
      [] what = "status" -> 5
      [] what = "commit" -> 6
      [] what = "push" -> 7

\* The call that comes directly before a call of `what` for the same object.
Before(what) ==
    CASE what = "clone" -> "config"
      [] what = "checkout" -> "clone"
      [] what = "add" -> "checkout"
      [] what = "status" -> "add"
      [] what = "commit" -> "status"
      [] what = "push" -> "commit"

\* A trace entry is a subprocess call of the current run.
IsCallOfRun(entry) == entry.run = run /\ entry.kind = "call"

\* C16: within a run the revision query comes first and succeeds before any
\* dependent is cloned; the entries of the dependents follow in input
\* order, all entries of one dependent before any entry of the next; and
\* the calls for one dependent are made in the order clone, checkout, add,
\* status, commit, push, each at most once and each directly after the
\* success of the one before it, the manifest being read and written
\* between checkout and add: no push without the commit before it, no
\* commit without the add and the status before it.
C16_FixedOrder ==
    /\ \A k \in 1..(Len(trace) - 1) :
          trace[k].run = trace[k + 1].run => trace[k].who <= trace[k + 1].who
    /\ LET calls == SelectSeq(trace, IsCallOfRun)
       IN  /\ calls # <<>> => calls[1].what = "ls-remote"
           /\ \A k \in 2..Len(calls) :
                 /\ calls[k - 1].ok
                 /\ calls[k].who >= 1
                 /\ calls[k].who = calls[k - 1].who
                       => Rank(calls[k - 1].what) < Rank(calls[k].what)
                 /\ calls[k].what # "config" =>
                       /\ calls[k - 1].what = Before(calls[k].what)
                       /\ calls[k - 1].who = calls[k].who
    /\ \A i \in 1..Len(users) :
          /\ clones[i].worktree # clones[i].cloned.WORKSPACE => CheckedOut(i)
          /\ (u = i /\ pc = "rewrite") => (CheckedOut(i) /\ ~Rewritten(i))
          /\ i > u => clones[i] = NoClone

\* Two dependents were each cloned, rewritten, committed and pushed, the
\* second one after the first.
C16_Witness ==
    /\ Len(users) = 2
    /\ pc = "exited"
    /\ exit_code = 0
    /\ \E p1 \in CallsIn(run, "push", 1), c2 \in CallsIn(run, "clone", 2),
          p2 \in CallsIn(run, "push", 2) :
          p1 < c2 /\ c2 < p2 /\ trace[p2].ok

\* C17 without its clause on the captured output: a failed subprocess call
\* is the only attempt of that call, is followed at once by the diagnostic
\* naming the command and its exit status, and ends the run with the
\* CalledProcessError.
FailureIsFatal ==
    \A k \in FailedCalls(run) :
        /\ CallsIn(run, trace[k].what, trace[k].who) = {k}
        /\ k + 1 = Len(trace)
        /\ trace[k + 1].kind = "print"
        /\ trace[k + 1].what = "An error occurred"
        /\ trace[k + 1].arg[1] = trace[k].what
        /\ trace[k + 1].arg[2] = "128"
        /\ pc = "exited"
        /\ exit_code # 0
        /\ raised = "CalledProcessError"

\* C17: every failed subprocess call (ls-remote, config, clone, checkout,
\* add, status, commit, push) is fatal and is not tried again, and the
\* diagnostic printed for it names the command, its exit status and the
\* output captured from it.
C17_FailureDiagnosed ==
    /\ FailureIsFatal
    /\ \A k \in FailedCalls(run) : trace[k + 1].arg[3] = "captured output"

\* The workspaces a manifest line of the inputs can be tagged for.
Workspaces == {ClientWs, ClientPythonWs, GRAKN_CORE_WORKSPACE}

\* The line carries the marker of workspace ws: the text of the marker with
\* nothing of a longer workspace name after it.
TaggedFor(line, ws) ==
    /\ Contains(line, SYNC_MARKER(ws))
    /\ \A w \in Workspaces : Contains(line, SYNC_MARKER(w)) => Len(w) <= Len(ws)

\* C18: a line tagged for a workspace other than the dependency's is never
\* the line replace_marker locates, and is the same in the rewritten
\* manifest as in the cloned one.
C18_MarkerUnique ==
    \A i \in 1..Len(users) :
        LET old == readlines(clones[i].cloned.WORKSPACE)
            new == readlines(clones[i].worktree)
        IN  \A k \in 1..Len(old) : \A w \in Workspaces :
                (TaggedFor(old[k], w) /\ w # bazel_workspace(dependency.repo)) =>
                    /\ new[k] = old[k]
                    /\ (u = i /\ pc \in {"add", "status", "commit", "push"}) => located # k

\* C19: when the message that a dependent already depends on the dependency
\* at revision R is printed, the line of the dependent's manifest located
\* by the dependency's marker contains R.
C19_NoOpTruthful ==
    \A k \in 1..Len(trace) :
        (trace[k].run = run /\ trace[k].kind = "print" /\ trace[k].what = "already depends") =>
            LET lines == readlines(clones[trace[k].who].worktree)
                hits == TaggedIndexes(lines, marker(dependency.repo))
            IN  /\ hits # {}
                /\ Contains(lines[Least(hits)], trace[k].arg)

\* The number of colons in a token.
Colons(token) == Cardinality({p \in 1..Len(token) : token[p] = ":"})

\* A token of the command line is not of the form repo:branch.
AnyMalformed ==
    \/ Colons(arguments.dependency) # 1
    \/ \E i \in 1..Len(arguments.user) : Colons(arguments.user[i]) # 1

\* C20: with a malformed --dependency or --user token no subprocess is ever
\* run and no remote is changed, for the dependents listed before the
\* malformed token included; the run ends before its first git action, in
\* the ValueError with a non-zero exit when it is an upstream run (a run
\* elsewhere ends at the upstream test, before the command line is read).
C20_MalformedRejectedFirst ==
    AnyMalformed =>
        /\ \A k \in 1..Len(trace) : trace[k].kind # "call"
        /\ pc \in {"main", "exited"}
        /\ users = <<>>
        /\ \A c \in Dependents : origin[c].log = <<>>
        /\ (pc = "exited" /\ IndicatorUpstream) =>
              (exit_code # 0 /\ raised = "ValueError" /\ trace = <<>>)

\* An upstream run with the credential, whose second --user token is
\* malformed and whose first is well-formed, has ended in the ValueError.
C20_Witness ==
    /\ IndicatorUpstream
    /\ ~CredentialAbsent
    /\ arguments.dependency = Coord(Client, Master)
    /\ Len(arguments.user) = 2
    /\ Colons(arguments.user[1]) = 1
    /\ Colons(arguments.user[2]) # 1
    /\ pc = "exited"
    /\ raised = "ValueError"
    /\ exit_code # 0

====
